---- MODULE Spec2Model ----
(***************************************************************************)
(* A model of mcp-rust-docs-embed: the embed tool of the MCP backend with  *)
(* its operation registry and detached ingestion tasks, the package and    *)
(* repository ingestion procedures, and the Qdrant-backed DataStore they   *)
(* write to and the query path reads from.                                 *)
(*                                                                         *)
(* Every `.await` of the Rust code is a point where other tasks may run,   *)
(* so a handler is modelled as one action per await: the action applies    *)
(* the effect of the request the handler is suspended on and then runs the *)
(* synchronous code up to the next await.  A request to Qdrant, to the     *)
(* embedding endpoint or to crates.io may fail; its outcome is chosen      *)
(* nondeterministically.                                                   *)
(***************************************************************************)
EXTENDS Integers, Sequences, FiniteSets, TLC

VARIABLES
    store,      \* Qdrant: collection name -> Absent or [size, points]
    ops,        \* Backend.embed_operations: operation id -> EmbedOperation
    calls,      \* embed_crate invocations: call number -> position and locals
    runs,       \* ingestion runs (detached tasks or direct invocations)
    cancelled,  \* Backend.cancellation_token has been cancelled
    embedded_before \* collections holding a completed embedding at start

vars == <<store, ops, calls, runs, cancelled, embedded_before>>

---------------------------------------------------------------------------
(* Bounds of the model *)

MaxChunks == 1      \* documentation items / chunks of one ingestion
MaxId == 2          \* readings of the nanosecond clock are 1..MaxId
MaxLimit == 2       \* largest max_results of a query

(* Program constants *)

VectorSize == 1024          \* EmbeddingConfig::default().vector_size
MetadataVectorLen == 1536   \* vec![0.0; 1536] in store_metadata
BATCH_SIZE == 50            \* embed_chunks
CONCURRENT_BATCHES == 5     \* embed_chunks
MetadataPointId == 0        \* PointStruct::new(0, ..) in store_metadata

---------------------------------------------------------------------------
(* Strings are sequences of one-character strings where the code edits     *)
(* them character by character.                                            *)

RECURSIVE replace(_, _, _)
\* str::replace(from, to) for a one-character pattern
replace(s, from, to) ==
    IF s = <<>> THEN <<>>
    ELSE <<IF Head(s) = from THEN to ELSE Head(s)>> \o replace(Tail(s), from, to)

RECURSIVE to_string(_)
\* the characters of s as one string
to_string(s) == IF s = <<>> THEN "" ELSE Head(s) \o to_string(Tail(s))

\* utils.rs: format!("{}_v{}", crate_name.replace('-', "_"), version.replace('.', "_"))
gen_table_name(crate_name, version) ==
    replace(crate_name, "-", "_") \o <<"_", "v">> \o replace(version, ".", "_")

\* utils.rs: format!("repo_{}", crate_name.replace('-', "_"))
gen_table_name_without_version(crate_name) ==
    <<"r", "e", "p", "o", "_">> \o replace(crate_name, "-", "_")

CrateName == <<"a", "-", "b">>
Version == <<"1", ".", "0">>
Star == <<"*">>
VersionReqs == {Star, <<>>, Version}
RepoName == <<"o", "/", "r">>

PkgColl == gen_table_name(CrateName, Version)
RepoColl == gen_table_name_without_version(RepoName)
Collections == {PkgColl, RepoColl}

---------------------------------------------------------------------------
(* Features.  A feature is named by a number whose order is the            *)
(* lexicographic order of the feature names; feature 3 is not declared by  *)
(* the crate.                                                              *)

AvailableFeatures == {1, 2}
RequestedFeatures == {<<1>>, <<1, 2>>, <<3>>}

RECURSIVE insert_sorted(_, _)
insert_sorted(x, s) ==
    IF s = <<>> THEN <<x>>
    ELSE IF x <= Head(s) THEN <<x>> \o s
    ELSE <<Head(s)>> \o insert_sorted(x, Tail(s))

RECURSIVE sort(_)
\* Vec::sort
sort(s) == IF s = <<>> THEN <<>> ELSE insert_sorted(Head(s), sort(Tail(s)))

Range(s) == {s[i] : i \in DOMAIN s}

---------------------------------------------------------------------------
(* The vector store.  A collection is Absent or a record of its declared   *)
(* vector size and its points; a point is [id, vector, payload, by] where  *)
(* payload is the JSON object stored with it and `by` the run that wrote   *)
(* it (0: written before this process started).                            *)

Absent == [absent |-> TRUE]
None == [none |-> TRUE]

collection_exists(c) == store[c] # Absent

\* CreateCollectionBuilder::new(name).vectors_config(VectorParamsBuilder::new(
\*   embedding_config.vector_size, Distance::Cosine))
NewCollection == [size |-> VectorSize, distance |-> "Cosine", points |-> {}]

\* upsert_points: a point with the same id is overwritten
Upserted(coll, p) ==
    [coll EXCEPT !.points = {q \in @ : q.id # p.id} \cup {p}]

ContentPayload(content) == [content |-> content]

\* data_store.rs store_metadata: the metadata record and its payload
MetadataPayload(crate_name, version, features, doc_count) ==
    [metadata |-> [crate_name |-> crate_name,
                   version |-> version,
                   features |-> features,
                   embedding_model |-> "text-embedding-3-small",
                   doc_count |-> doc_count],
     is_metadata |-> TRUE]

HasContent(p) == "content" \in DOMAIN p.payload

ContentPoints(c) == IF store[c] = Absent THEN {} ELSE {p \in store[c].points : HasContent(p)}

SentinelPoints(c) ==
    IF store[c] = Absent THEN {}
    ELSE {p \in store[c].points : p.id = MetadataPointId}

\* data_store.rs get_metadata, given whether get_points answered
get_metadata(c, rpc_ok) ==
    IF ~rpc_ok \/ store[c] = Absent THEN None
    ELSE LET found == {p \in store[c].points :
                          p.id = MetadataPointId /\ "metadata" \in DOMAIN p.payload}
         IN  IF found = {} THEN None ELSE (CHOOSE p \in found : TRUE).payload.metadata

---------------------------------------------------------------------------
(* Backend::embed_crate (backend.rs 114-273), one action per await.        *)

InProgress == "InProgress"
Completed == "Completed"
Failed == "Failed"

\* the embed_crate invocations of a behaviour: a pair, which may race
CallIds == {1, 2}

Began == DOMAIN calls
Active == {k \in Began : calls[k].pc # "returned"}

\* the validation without the check of the requested features
validate_version_only(version_req, features, resolved, fetched) ==
    LET latest == version_req = <<>> \/ version_req = Star
    IN  IF latest /\ ~resolved THEN "version_resolution_failed"
        ELSE IF ~fetched THEN "features_fetch_failed"
        ELSE "pending"

\* lines 121-158: the version is resolved, the crate's features are fetched
\* and the requested features are looked up in them
validate(version_req, features, resolved, fetched) ==
    LET latest == version_req = <<>> \/ version_req = Star
        invalid_features == SelectSeq(features, LAMBDA f : f \notin AvailableFeatures)
    IN  IF latest /\ ~resolved THEN "version_resolution_failed"
        ELSE IF ~fetched THEN "features_fetch_failed"
        ELSE IF invalid_features # <<>> THEN "invalid_features"
        ELSE "pending"

\* lines 118-158: operation id, child token, version resolution, feature validation
embed_crate_begin(k, version_req, features) ==
    /\ k = Cardinality(Began) + 1
    /\ k \in CallIds
    /\ \E resolved \in BOOLEAN, fetched \in BOOLEAN :
         LET result == validate(version_req, features, resolved, fetched)
         IN  calls' = calls @@ (k :> [pc |-> IF result = "pending" THEN "exists" ELSE "returned",
                                      crate_name |-> CrateName,
                                      version |-> Version,
                                      features |-> features,
                                      result |-> result,
                                      existing |-> None,
                                      overlap |-> Active,
                                      \* history: the operations that had
                                      \* ended Failed when the call was made
                                      after_failed |-> {j \in DOMAIN ops :
                                                          ops[j].status = Failed}])
    /\ UNCHANGED <<store, ops, runs, cancelled, embedded_before>>

\* lines 161-168: the client is built and collection_exists answers, or the
\* whole check is skipped
embed_crate_exists(k) ==
    /\ k \in Began
    /\ calls[k].pc = "exists"
    /\ \E checked \in BOOLEAN :
         LET table_name == gen_table_name(calls[k].crate_name, calls[k].version)
         IN  calls' = [calls EXCEPT ![k].pc =
                          IF checked /\ collection_exists(table_name)
                          THEN "get_metadata" ELSE "insert"]
    /\ UNCHANGED <<store, ops, runs, cancelled, embedded_before>>

\* the comparison without the two sort() calls
same_features_unsorted(existing, requested) == existing = requested

\* the comparison of lines 177-182
same_features(existing, requested) == sort(existing) = sort(requested)

\* lines 170-211: the metadata decides between success, conflict and legacy
embed_crate_get_metadata(k) ==
    /\ k \in Began
    /\ calls[k].pc = "get_metadata"
    /\ \E rpc_ok \in BOOLEAN :
         LET table_name == gen_table_name(calls[k].crate_name, calls[k].version)
             metadata == get_metadata(table_name, rpc_ok)
             result ==
                 IF metadata = None THEN "already_embedded_legacy"
                 ELSE IF same_features(metadata.features, calls[k].features)
                      THEN "already_embedded"
                      ELSE "conflict"
         IN  calls' = [calls EXCEPT ![k].pc = "returned",
                                    ![k].result = result,
                                    ![k].existing = metadata]
    /\ UNCHANGED <<store, ops, runs, cancelled, embedded_before>>

---------------------------------------------------------------------------
(* Ingestion runs.  A run is one execution of generate_and_embed_docs      *)
(* (kind "crate", inside the task spawned by embed_crate) or of            *)
(* process_and_embed_github_repo (kind "repo").  pc names the await the    *)
(* run is suspended on; req is the point of the upsert in flight.          *)

Ok == "Ok"
ERR == [err |-> TRUE]

NewRun(kind, crate_name, version, pc) ==
    [kind |-> kind,
     \* the DataStore handle: try_new passes vec![] as features
     crate_name |-> crate_name, version |-> version, features |-> <<>>,
     is_repo_based |-> kind = "repo",
     pc |-> pc, chunks |-> <<>>, todo |-> <<>>, doc_count |-> 0,
     req |-> None, last_id |-> 0, result |-> "",
     \* a query's max_results, the points search_points returned, its results
     limit |-> 0, raw |-> {}, results |-> <<>>,
     \* history: the kinds of request a query has had answered
     sent |-> {},
     \* history: successful content upserts and metadata writes of this run
     upserts |-> 0, meta_writes |-> 0,
     \* history: the place of this run's reset among the resets (0: none yet)
     reset_no |-> 0]

\* data_store.rs 119-123, 145-149, 175-179, 230-234
collection_name(r) ==
    IF r.is_repo_based THEN gen_table_name_without_version(r.crate_name)
    ELSE gen_table_name(r.crate_name, r.version)

\* the run returns: its locals are dropped
Finish(r, result) ==
    [r EXCEPT !.pc = "ret", !.result = result, !.req = None,
              !.chunks = <<>>, !.todo = <<>>, !.last_id = 0]

Chunks(n) == [i \in 1..n |-> i]

\* slice::chunks(BATCH_SIZE)
RECURSIVE Batches(_)
Batches(chunks) ==
    IF chunks = <<>> THEN <<>>
    ELSE IF Len(chunks) <= BATCH_SIZE THEN <<chunks>>
    ELSE <<SubSeq(chunks, 1, BATCH_SIZE)>>
         \o Batches(SubSeq(chunks, BATCH_SIZE + 1, Len(chunks)))

Min(a, b) == IF a <= b THEN a ELSE b

\* the vector the endpoint returns at position i of a response: its length is
\* the model's, which the code does not state
Embedding(i) == [model |-> "text-embedding-3-small", index |-> i]

\* embed_chunks lines 78-84 / 77-83: response.data paired with batch.get(i);
\* a response length of -1 stands for a failed request
BatchResult(batch, len) ==
    IF len < 0 THEN <<ERR>>
    ELSE [i \in 1..Min(len, Len(batch)) |-> [content |-> batch[i], embedding |-> Embedding(i)]]

RECURSIVE Flatten(_)
Flatten(ss) == IF ss = <<>> THEN <<>> ELSE Head(ss) \o Flatten(Tail(ss))

\* the loop of embed_chunks lines 93-102 at its next item, and what follows
\* embed_chunks when nothing is left; id is the clock reading of
\* add_embedding_with_content
Proceed(r, t, todo, id) ==
    IF todo = <<>> THEN
        IF r.kind = "repo"
        THEN [r EXCEPT !.pc = "store_metadata", !.todo = <<>>, !.req = None]
        ELSE Finish([r EXCEPT !.todo = <<>>], Ok)
    ELSE IF Head(todo) = ERR THEN Finish(r, "Failed to create embeddings")
    ELSE [r EXCEPT !.pc = "upsert", !.todo = Tail(todo), !.last_id = id,
                   !.req = [id |-> id, vector |-> Head(todo).embedding,
                            payload |-> ContentPayload(Head(todo).content), by |-> t]]

\* the readings the clock can give a run next: later than its previous one
Readings(r) == (r.last_id + 1)..MaxId

\* what the caller of DataStore::try_new / DataStore::new awaits next:
\* reset() in the ingestions, embed_query() in QueryService::query_embeddings
AfterTryNew(r) == IF r.kind = "query" THEN "embed_query" ELSE "reset_delete"

\* documentation.rs 24-32: load_documents, then try_new asks collection_exists
generate_and_embed_docs_load(t) ==
    /\ t \in DOMAIN runs
    /\ runs[t].kind = "crate"
    /\ runs[t].pc = "spawned"
    /\ \/ runs' = [runs EXCEPT ![t] = Finish(@, "Failed to load documents")]
       \/ \E n \in 0..MaxChunks :
            runs' = [runs EXCEPT ![t].pc = "try_new", ![t].chunks = Chunks(n)]
    /\ UNCHANGED <<store, ops, calls, cancelled, embedded_before>>

\* data_store.rs 60-61 / 95-96: collection_exists answers
try_new_exists(t) ==
    /\ t \in DOMAIN runs
    /\ runs[t].pc = "try_new"
    /\ \/ runs' = [runs EXCEPT ![t] = Finish(@, "store error")]
       \/ runs' = [runs EXCEPT ![t].pc =
                      IF collection_exists(collection_name(runs[t]))
                      THEN AfterTryNew(runs[t]) ELSE "try_new_create"]
    /\ UNCHANGED <<store, ops, calls, cancelled, embedded_before>>

\* data_store.rs 62-71 / 97-106: create_collection answers, assert!(res.result)
try_new_create(t) ==
    /\ t \in DOMAIN runs
    /\ runs[t].pc = "try_new_create"
    /\ LET c == collection_name(runs[t]) IN
       \/ /\ runs' = [runs EXCEPT ![t] = Finish(@, "store error")]
          /\ store' = store
       \/ /\ ~collection_exists(c)
          /\ store' = [store EXCEPT ![c] = NewCollection]
          /\ runs' = [runs EXCEPT ![t].pc = AfterTryNew(runs[t])]
       \/ \* Ok(res) with res.result false: the assertion panics the task
          /\ runs' = [runs EXCEPT ![t].pc = "panicked"]
          /\ store' = store
    /\ UNCHANGED <<ops, calls, cancelled, embedded_before>>

\* data_store.rs 125-127: delete_collection answers
reset_delete(t) ==
    /\ t \in DOMAIN runs
    /\ runs[t].pc = "reset_delete"
    /\ LET c == collection_name(runs[t]) IN
       \/ /\ runs' = [runs EXCEPT ![t] = Finish(@, "store error")]
          /\ store' = store
       \/ /\ store' = [store EXCEPT ![c] = Absent]
          /\ runs' = [runs EXCEPT ![t].pc = "reset_create"]
    /\ UNCHANGED <<ops, calls, cancelled, embedded_before>>

\* the resets completed so far
ResetsDone ==
    Cardinality({u \in DOMAIN runs : "reset_no" \in DOMAIN runs[u] /\ runs[u].reset_no > 0})

\* data_store.rs 129-136: create_collection answers; then the chunk strings
\* are built and embed_chunks sends its batches
reset_create(t) ==
    /\ t \in DOMAIN runs
    /\ runs[t].pc = "reset_create"
    /\ LET c == collection_name(runs[t]) IN
       \/ /\ runs' = [runs EXCEPT ![t] = Finish(@, "store error")]
          /\ store' = store
       \/ /\ ~collection_exists(c)
          /\ store' = [store EXCEPT ![c] = NewCollection]
          /\ runs' = [runs EXCEPT ![t] =
                         LET r == [@ EXCEPT !.reset_no = ResetsDone + 1] IN
                         IF r.chunks = <<>>
                         THEN Proceed([r EXCEPT !.doc_count = 0], t, <<>>, 0)
                         ELSE [r EXCEPT !.pc = "embed", !.doc_count = Len(r.chunks)]]
    /\ UNCHANGED <<ops, calls, cancelled, embedded_before>>

MaxResponse == Min(BATCH_SIZE, MaxChunks) + 1

NeedsId(todo) == todo # <<>> /\ Head(todo) # ERR

\* embed_chunks 60-91 / 61-92: every batch has answered, in some order
embed_chunks_collect(t) ==
    /\ t \in DOMAIN runs
    /\ runs[t].pc = "embed"
    /\ LET batches == Batches(runs[t].chunks)
           nb == Len(batches)
       IN  \E resp \in [1..nb -> -1..MaxResponse],
              order \in Permutations(1..nb), id \in 0..MaxId :
             LET todo == Flatten([i \in 1..nb |->
                             BatchResult(batches[order[i]], resp[order[i]])])
             IN  /\ \A i \in 1..nb : resp[i] <= Len(batches[i]) + 1
                 /\ IF NeedsId(todo) THEN id \in Readings(runs[t]) ELSE id = 0
                 /\ runs' = [runs EXCEPT ![t] = Proceed(@, t, todo, id)]
    /\ UNCHANGED <<store, ops, calls, cancelled, embedded_before>>

\* data_store.rs 140-167: upsert_points answers for the point in flight
add_embedding_with_content(t) ==
    /\ t \in DOMAIN runs
    /\ runs[t].pc = "upsert"
    /\ LET c == collection_name(runs[t]) IN
       \/ /\ runs' = [runs EXCEPT ![t] = Finish(@, "store error")]
          /\ store' = store
       \/ /\ collection_exists(c)
          /\ store' = [store EXCEPT ![c] = Upserted(@, runs[t].req)]
          /\ \E id \in 0..MaxId :
               /\ IF NeedsId(runs[t].todo) THEN id \in Readings(runs[t]) ELSE id = 0
               /\ runs' = [runs EXCEPT ![t] =
                              Proceed([@ EXCEPT !.upserts = @ + 1], t, @.todo, id)]
    /\ UNCHANGED <<ops, calls, cancelled, embedded_before>>

\* data_store.rs 210-243: the point store_metadata upserts
MetadataPoint(r, t) ==
    [id |-> MetadataPointId, vector |-> [zeros |-> MetadataVectorLen],
     payload |-> MetadataPayload(r.crate_name,
                                 IF r.is_repo_based THEN "repo" ELSE r.version,
                                 r.features, r.doc_count),
     by |-> t]

\* github_processor.rs 39: upsert_points answers for the metadata point
store_metadata(t) ==
    /\ t \in DOMAIN runs
    /\ runs[t].pc = "store_metadata"
    /\ LET c == collection_name(runs[t]) IN
       \/ /\ runs' = [runs EXCEPT ![t] = Finish(@, "store error")]
          /\ store' = store
       \/ /\ collection_exists(c)
          /\ store' = [store EXCEPT ![c] = Upserted(@, MetadataPoint(runs[t], t))]
          /\ runs' = [runs EXCEPT ![t] = Finish([@ EXCEPT !.meta_writes = @ + 1], Ok)]
    /\ UNCHANGED <<ops, calls, cancelled, embedded_before>>

---------------------------------------------------------------------------
(* The task embed_crate spawns (backend.rs 233-265) and the registry.      *)

Task(k) == <<"task", k>>

\* backend.rs 214-226, 233: the record is inserted, the task is spawned and
\* the call returns the operation id
embed_crate_insert_spawn(k) ==
    /\ k \in Began
    /\ calls[k].pc = "insert"
    /\ ops' = ops @@ (k :> [status |-> InProgress,
                            crate_name |-> calls[k].crate_name,
                            version |-> calls[k].version,
                            message |-> "Starting documentation generation and embedding process"])
    /\ runs' = runs @@ (Task(k) :> NewRun("crate", calls[k].crate_name,
                                          calls[k].version, "spawned"))
    /\ calls' = [calls EXCEPT ![k].pc = "returned", ![k].result = "started"]
    /\ UNCHANGED <<store, cancelled, embedded_before>>

\* one step of the ingestion a run executes
IngestStep(t) ==
    \/ generate_and_embed_docs_load(t)
    \/ try_new_exists(t)
    \/ try_new_create(t)
    \/ reset_delete(t)
    \/ reset_create(t)
    \/ embed_chunks_collect(t)
    \/ add_embedding_with_content(t)

\* a cancellation that is also taken by a task that has already ended
SuspendedOrEnded(r) == r.pc # "panicked"

\* the select! of the task has not resolved yet
Suspended(r) == r.pc \notin {"ret", "done", "panicked"}

\* backend.rs 234-246: tokio::select! polls the ingestion.  Once the token
\* is cancelled the ingestion's result is taken only if the ingestion ends
\* in the very poll that finds the token cancelled.
task_poll(k) ==
    /\ k \in DOMAIN ops
    /\ IngestStep(Task(k))
    /\ cancelled => ~Suspended(runs'[Task(k)])

\* the store after the server carries out the request run r has in flight
InFlightEffect(r) ==
    LET c == collection_name(r) IN
    CASE r.pc \in {"try_new_create", "reset_create"} /\ ~collection_exists(c) ->
             [store EXCEPT ![c] = NewCollection]
      [] r.pc = "reset_delete" -> [store EXCEPT ![c] = Absent]
      [] r.pc = "upsert" /\ collection_exists(c) ->
             [store EXCEPT ![c] = Upserted(@, r.req)]
      [] OTHER -> store

\* backend.rs 235-237: the cancelled branch of the select!; the ingestion is
\* dropped, the request it had in flight may still be carried out
task_cancelled(k) ==
    /\ k \in DOMAIN ops
    /\ cancelled
    /\ Suspended(runs[Task(k)])
    /\ runs' = [runs EXCEPT ![Task(k)] = Finish(@, "Operation cancelled")]
    /\ store' \in {store, InFlightEffect(runs[Task(k)])}
    /\ UNCHANGED <<ops, calls, cancelled, embedded_before>>

\* backend.rs 253-257
completed_message(op) ==
    "Successfully generated and embedded documentation for "
        \o to_string(op.crate_name) \o " v" \o to_string(op.version)

\* the error recorded without the prefix
bare_message(e) == e

\* backend.rs 261
failed_message(e) == "Failed to embed docs: " \o e

\* backend.rs 248-264: the outcome is written into the record
task_record(k) ==
    /\ k \in DOMAIN ops
    /\ runs[Task(k)].pc = "ret"
    /\ ops' = [ops EXCEPT ![k] =
                  IF runs[Task(k)].result = Ok
                  THEN [@ EXCEPT !.status = Completed, !.message = completed_message(ops[k])]
                  ELSE [@ EXCEPT !.status = Failed,
                                 !.message = failed_message(runs[Task(k)].result)]]
    /\ runs' = [runs EXCEPT ![Task(k)].pc = "done"]
    /\ UNCHANGED <<store, calls, cancelled, embedded_before>>

\* backend.rs 101-110: the CancellationToken handed to Backend::new is
\* cancelled by its holder, at any time
cancel ==
    /\ ~cancelled
    /\ cancelled' = TRUE
    /\ UNCHANGED <<store, ops, calls, runs, embedded_before>>

---------------------------------------------------------------------------
(* The tool server: embed calls for one crate, their tasks, cancellation.  *)

Before == <<"before", 0>>

\* a collection left by an earlier process: content points, with or without
\* the metadata point that store_metadata writes for a handle made by
\* try_new_with_features
EarlierCollection(features, with_metadata) ==
    [NewCollection EXCEPT !.points =
        {[id |-> 1, vector |-> Embedding(1), payload |-> ContentPayload(1), by |-> Before]}
        \cup IF with_metadata
             THEN {[id |-> MetadataPointId, vector |-> [zeros |-> MetadataVectorLen],
                    payload |-> MetadataPayload(CrateName, Version, features, 1),
                    by |-> Before]}
             ELSE {}]

Init ==
    /\ \E earlier \in {Absent, EarlierCollection(<<>>, FALSE),
                       EarlierCollection(<<2, 1>>, TRUE)} :
         /\ store = [c \in Collections |-> IF c = PkgColl THEN earlier ELSE Absent]
         /\ embedded_before = {c \in Collections : c = PkgColl /\ earlier # Absent}
    /\ ops = <<>>
    /\ calls = <<>>
    /\ runs = <<>>
    /\ cancelled = FALSE

Next ==
    \/ \E k \in CallIds, v \in VersionReqs, f \in RequestedFeatures :
         embed_crate_begin(k, v, f)
    \/ \E k \in CallIds : embed_crate_exists(k)
    \/ \E k \in CallIds : embed_crate_get_metadata(k)
    \/ \E k \in CallIds : embed_crate_insert_spawn(k)
    \/ \E k \in CallIds : task_poll(k)
    \/ \E k \in CallIds : task_cancelled(k)
    \/ \E k \in CallIds : task_record(k)
    \/ cancel

Spec == Init /\ [][Next]_vars

\* the tool server under fair scheduling: the runtime keeps polling a
\* spawned task, every request the ingestion awaits is answered or fails,
\* and the write lock of the registry is granted
TaskFairness ==
    \A k \in CallIds :
        /\ WF_vars(task_poll(k) \/ task_cancelled(k))
        /\ WF_vars(task_record(k))

FairSpec == Spec /\ TaskFairness

---------------------------------------------------------------------------
(* Repository ingestion (github_processor.rs) and the query path           *)
(* (query.rs), invoked directly.                                           *)

\* the process_and_embed_github_repo invocations of a behaviour
RepoRunIds == {1, 2}
Repo(i) == <<"repo", i>>
Query == <<"query", 1>>

\* github_processor.rs 8-12: process_github_repo starts cloning
process_and_embed_github_repo(i) ==
    /\ Repo(i) \notin DOMAIN runs
    /\ \A j \in RepoRunIds : j < i => Repo(j) \in DOMAIN runs
    /\ runs' = runs @@ (Repo(i) :> NewRun("repo", RepoName, None, "clone"))
    /\ UNCHANGED <<store, ops, calls, cancelled, embedded_before>>

\* github_processor.rs 12-25: the repository is cloned and chunked, then
\* DataStore::new asks collection_exists
process_github_repo(t) ==
    /\ t \in DOMAIN runs
    /\ runs[t].pc = "clone"
    /\ \/ runs' = [runs EXCEPT ![t] = Finish(@, "Failed to process GitHub repository")]
       \/ \E n \in 0..MaxChunks :
            runs' = [runs EXCEPT ![t].pc = "try_new", ![t].chunks = Chunks(n)]
    /\ UNCHANGED <<store, ops, calls, cancelled, embedded_before>>

\* query.rs 21-29: QueryService::query_embeddings opens the store
query_embeddings(limit) ==
    /\ Query \notin DOMAIN runs
    /\ runs' = runs @@ (Query :> [NewRun("query", RepoName, None, "try_new")
                                     EXCEPT !.is_repo_based = TRUE, !.limit = limit])
    /\ UNCHANGED <<store, ops, calls, cancelled, embedded_before>>

\* query.rs 30, 43-62: the query embedding arrives
embed_query(t) ==
    /\ t \in DOMAIN runs
    /\ runs[t].pc = "embed_query"
    /\ LET r == [runs[t] EXCEPT !.sent = @ \cup {"embedding"}] IN
       \/ runs' = [runs EXCEPT ![t] = Finish(r, "Failed to create query embedding")]
       \/ runs' = [runs EXCEPT ![t] = [r EXCEPT !.pc = "search"]]
    /\ UNCHANGED <<store, ops, calls, cancelled, embedded_before>>

\* the points of a set in the order of their ids
RECURSIVE InOrder(_)
InOrder(ps) ==
    IF ps = {} THEN <<>>
    ELSE LET p == CHOOSE x \in ps : \A y \in ps : x.id <= y.id
         IN  <<p>> \o InOrder(ps \ {p})

\* the loop without its `continue`: a missing content counts as empty
content_results_unfiltered(raw) ==
    [i \in 1..Len(raw) |->
        [point |-> raw[i].id,
         content |-> IF "content" \in DOMAIN raw[i].payload
                     THEN raw[i].payload.content ELSE 0]]

\* data_store.rs 186-206: the loop over search_res.result
content_results(raw) ==
    LET kept == SelectSeq(raw, LAMBDA p : "content" \in DOMAIN p.payload)
    IN  [i \in 1..Len(kept) |-> [point |-> kept[i].id, content |-> kept[i].payload.content]]

\* what search_points may answer: max_results points of the collection, or
\* all of them when there are fewer
SearchAnswers(c, max_results) ==
    {raw \in SUBSET store[c].points :
        Cardinality(raw) = Min(max_results, Cardinality(store[c].points))}

\* data_store.rs 170-207: search_points answers
query_with_content(t) ==
    /\ t \in DOMAIN runs
    /\ runs[t].pc = "search"
    /\ LET c == collection_name(runs[t])
           r == [runs[t] EXCEPT !.sent = @ \cup {"search"}] IN
       \/ runs' = [runs EXCEPT ![t] = Finish(r, "store error")]
       \/ /\ collection_exists(c)
          /\ \E raw \in SearchAnswers(c, runs[t].limit) :
               runs' = [runs EXCEPT ![t] =
                           Finish([r EXCEPT !.raw = raw,
                                            !.results = content_results(InOrder(raw))], Ok)]
    /\ UNCHANGED <<store, ops, calls, cancelled, embedded_before>>

RepoInit ==
    /\ store = [c \in Collections |-> Absent]
    /\ embedded_before = {}
    /\ ops = <<>>
    /\ calls = <<>>
    /\ runs = <<>>
    /\ cancelled = FALSE

RepoStep(t) ==
    \/ process_github_repo(t)
    \/ try_new_exists(t)
    \/ try_new_create(t)
    \/ reset_delete(t)
    \/ reset_create(t)
    \/ embed_chunks_collect(t)
    \/ add_embedding_with_content(t)
    \/ store_metadata(t)
    \/ embed_query(t)
    \/ query_with_content(t)

RepoNext ==
    \/ \E i \in RepoRunIds : process_and_embed_github_repo(i)
    \/ \E limit \in 1..MaxLimit : query_embeddings(limit)
    \/ \E t \in {Repo(i) : i \in RepoRunIds} \cup {Query} : RepoStep(t)

RepoSpec == RepoInit /\ [][RepoNext]_vars

---------------------------------------------------------------------------
(* Status calls (backend.rs 380-405) next to the embed calls               *)

\* every BackendError reported as an internal error
McpError_internal(err) == [code |-> "internal_error", error |-> "Internal server error"]

\* error.rs 28-45: the McpError a BackendError is turned into
McpError_from(err) ==
    IF err \in {"VersionResolutionFailed", "NoEmbeddedDocs",
                "NoQueryResults", "OperationNotFound"}
    THEN [code |-> "invalid_request", error |-> err]
    ELSE [code |-> "internal_error", error |-> "Internal server error"]

\* a lookup that misses the records that have reached a terminal status
get_in_progress(map, key) ==
    IF key \in DOMAIN map /\ map[key].status = InProgress THEN map[key] ELSE None

\* HashMap::get(..).cloned()
get(map, key) == IF key \in DOMAIN map THEN map[key] ELSE None

\* backend.rs 390-394
status_text(status) ==
    CASE status = InProgress -> "in_progress"
      [] status = Completed -> "completed"
      [] status = Failed -> "failed"

\* operation ids a status request may carry: those embed hands out and one
\* it never hands out
UnknownId == 0
OperationIds == CallIds \cup {UnknownId}

StatusCall == <<"status", 1>>

\* backend.rs 380-405
query_embed_status(operation_id) ==
    /\ LET op_data == get(ops, operation_id)
           response ==
               IF op_data = None THEN McpError_from("OperationNotFound")
               ELSE [code |-> "success", status |-> status_text(op_data.status),
                     message |-> op_data.message]
       IN  runs' = [t \in DOMAIN runs \cup {StatusCall} |->
                       IF t = StatusCall
                       THEN [kind |-> "status", operation_id |-> operation_id,
                             pc |-> "ret", result |-> response]
                       ELSE runs[t]]
    /\ UNCHANGED <<store, ops, calls, cancelled, embedded_before>>

StatusInit ==
    /\ store = [c \in Collections |-> Absent]
    /\ embedded_before = {}
    /\ ops = <<>>
    /\ calls = <<>>
    /\ runs = <<>>
    /\ cancelled = FALSE

StatusNext ==
    \/ \E k \in CallIds : embed_crate_begin(k, Version, <<1>>)
    \/ \E k \in CallIds : embed_crate_exists(k)
    \/ \E k \in CallIds : embed_crate_get_metadata(k)
    \/ \E k \in CallIds : embed_crate_insert_spawn(k)
    \/ \E k \in CallIds : task_poll(k)
    \/ \E k \in CallIds : task_cancelled(k)
    \/ \E k \in CallIds : task_record(k)
    \/ cancel
    \/ \E id \in OperationIds : query_embed_status(id)

StatusSpec == StatusInit /\ [][StatusNext]_vars

---------------------------------------------------------------------------
(* The query tool for a package (backend.rs 279-377) with the              *)
(* QueryService it calls (services/query.rs 32-54)                         *)

PkgQuery == <<"query", 2>>

\* the tool's own locals next to those of QueryService::query_embeddings
QueryLocals == [precheck |-> "", absent_at_check |-> FALSE,
                features_info |-> None, response |-> None]

\* backend.rs 283-295: the version is resolved
pkg_query_begin(version_req, limit) ==
    /\ PkgQuery \notin DOMAIN runs
    /\ \E resolved \in BOOLEAN :
         LET latest == version_req = <<>> \/ version_req = Star
             r == [NewRun("query", CrateName, Version, "exists") EXCEPT !.limit = limit]
                  @@ QueryLocals
         IN  runs' = runs @@ (PkgQuery :>
                 IF latest /\ ~resolved
                 THEN [r EXCEPT !.pc = "done",
                                !.response = McpError_from("VersionResolutionFailed")]
                 ELSE r)
    /\ UNCHANGED <<store, ops, calls, cancelled, embedded_before>>

\* backend.rs 332-334: QueryService::new needs OPENAI_API_KEY; then
\* services/query.rs 41 opens the store
NewQueryService(r, key_set) ==
    IF key_set THEN [r EXCEPT !.pc = "try_new"]
    ELSE [r EXCEPT !.pc = "done", !.response = McpError_from("Internal")]

\* backend.rs 299-330: the check is made only with QDRANT_URL set and a
\* client built, and counts only when collection_exists answers
pkg_query_exists(t) ==
    /\ t \in DOMAIN runs
    /\ "precheck" \in DOMAIN runs[t]
    /\ runs[t].pc = "exists"
    /\ \E outcome \in {"skipped", "error", "answered"}, key_set \in BOOLEAN :
         LET exists == collection_exists(collection_name(runs[t]))
             r == [runs[t] EXCEPT !.absent_at_check = ~exists,
                                  !.precheck = IF outcome # "answered" THEN outcome
                                               ELSE IF exists THEN "present" ELSE "absent"]
         IN  runs' = [runs EXCEPT ![t] =
                 IF outcome # "answered" THEN NewQueryService(r, key_set)
                 ELSE IF ~exists
                      THEN [r EXCEPT !.pc = "done",
                                     !.response = McpError_from("NoEmbeddedDocs")]
                      ELSE [r EXCEPT !.pc = "get_metadata"]]
    /\ UNCHANGED <<store, ops, calls, cancelled, embedded_before>>

\* backend.rs 314-324: the metadata gives the features for the header
pkg_query_get_metadata(t) ==
    /\ t \in DOMAIN runs
    /\ "precheck" \in DOMAIN runs[t]
    /\ runs[t].pc = "get_metadata"
    /\ \E rpc_ok \in BOOLEAN, key_set \in BOOLEAN :
         LET metadata == get_metadata(collection_name(runs[t]), rpc_ok)
             r == [runs[t] EXCEPT !.features_info =
                      IF metadata = None THEN None ELSE metadata.features]
         IN  runs' = [runs EXCEPT ![t] = NewQueryService(r, key_set)]
    /\ UNCHANGED <<store, ops, calls, cancelled, embedded_before>>

\* backend.rs 336-376: the answer of QueryService::query_embeddings becomes
\* the tool's answer
pkg_query_return(t) ==
    /\ t \in DOMAIN runs
    /\ "precheck" \in DOMAIN runs[t]
    /\ runs[t].pc = "ret"
    /\ runs' = [runs EXCEPT ![t].pc = "done", ![t].response =
                   IF runs[t].result # Ok THEN McpError_from("Internal")
                   ELSE IF runs[t].results = <<>> THEN McpError_from("NoQueryResults")
                   ELSE [code |-> "success", features |-> runs[t].features_info,
                         results |-> runs[t].results]]
    /\ UNCHANGED <<store, ops, calls, cancelled, embedded_before>>

(* QdrantW::try_new (qdrant_w.rs 16-34), the other way to open a store     *)

Wrapper == <<"qdrant_w", 1>>

\* qdrant_w.rs 17-21: the client is built, delete_collection is sent
QdrantW_try_new(c) ==
    /\ Wrapper \notin DOMAIN runs
    /\ \E built \in BOOLEAN :
         runs' = runs @@ (Wrapper :>
             [kind |-> "qdrant_w", collection |-> c,
              pc |-> IF built THEN "delete" ELSE "ret",
              result |-> IF built THEN "" ELSE "client error"])
    /\ UNCHANGED <<store, ops, calls, cancelled, embedded_before>>

\* qdrant_w.rs 21: delete_collection answers and the answer is dropped;
\* create_collection is sent
QdrantW_delete(t) ==
    /\ t \in DOMAIN runs
    /\ runs[t].kind = "qdrant_w"
    /\ runs[t].pc = "delete"
    /\ store' \in {store, [store EXCEPT ![runs[t].collection] = Absent]}
    /\ runs' = [runs EXCEPT ![t].pc = "create"]
    /\ UNCHANGED <<ops, calls, cancelled, embedded_before>>

\* qdrant_w.rs 24-33: create_collection answers, assert!(res.result)
QdrantW_create(t) ==
    /\ t \in DOMAIN runs
    /\ runs[t].kind = "qdrant_w"
    /\ runs[t].pc = "create"
    /\ LET c == runs[t].collection IN
       \/ /\ runs' = [runs EXCEPT ![t].pc = "ret", ![t].result = "store error"]
          /\ store' = store
       \/ /\ ~collection_exists(c)
          /\ store' = [store EXCEPT ![c] = NewCollection]
          /\ runs' = [runs EXCEPT ![t].pc = "ret", ![t].result = Ok]
       \/ /\ runs' = [runs EXCEPT ![t].pc = "panicked"]
          /\ store' = store
    /\ UNCHANGED <<ops, calls, cancelled, embedded_before>>

QueryInit ==
    /\ \E earlier \in {Absent, EarlierCollection(<<>>, FALSE),
                       EarlierCollection(<<2, 1>>, TRUE)} :
         /\ store = [c \in Collections |-> IF c = PkgColl THEN earlier ELSE Absent]
         /\ embedded_before = {c \in Collections : c = PkgColl /\ earlier # Absent}
    /\ ops = <<>>
    /\ calls = <<>>
    /\ runs = <<>>
    /\ cancelled = FALSE

QueryNext ==
    \/ \E v \in VersionReqs, limit \in 1..MaxLimit : pkg_query_begin(v, limit)
    \/ pkg_query_exists(PkgQuery)
    \/ pkg_query_get_metadata(PkgQuery)
    \/ try_new_exists(PkgQuery)
    \/ try_new_create(PkgQuery)
    \/ embed_query(PkgQuery)
    \/ query_with_content(PkgQuery)
    \/ pkg_query_return(PkgQuery)
    \/ QdrantW_try_new(PkgColl)
    \/ QdrantW_delete(Wrapper)
    \/ QdrantW_create(Wrapper)

QuerySpec == QueryInit /\ [][QueryNext]_vars

---------------------------------------------------------------------------
(* Collection names: utils.rs 23-35, the parsing of list_embedded_crates   *)
(* (backend.rs 440-449) and parse_repo_url (chunk_repo.rs 114-123),        *)
(* applied to the identifiers of two targets                               *)

MaxNameLen == 2     \* longest package or repository name, in characters

\* names start with a letter and go on with letters, '-' and '_'
RECURSIVE NamesOfLen(_)
NamesOfLen(n) ==
    IF n = 1 THEN {<<c>> : c \in {"a", "A"}}
    ELSE {s \o <<c>> : s \in NamesOfLen(n - 1), c \in {"a", "A", "-", "_"}}

Names == UNION {NamesOfLen(n) : n \in 1..MaxNameLen}
VersionStrings == {<<"1">>, <<"1", ".", "0">>, <<"2", ".", "0">>}

GitHub == <<"h", "t", "t", "p", "s", ":", "/", "/",
            "g", "i", "t", "h", "u", "b", ".", "c", "o", "m", "/">>

\* the forms in which the repository o/<name> is given
owner_repo(name) == <<"o", "/">> \o name
github_url(name) == GitHub \o owner_repo(name)
blob_url(name) == github_url(name) \o <<"/", "b", "l", "o", "b", "/", "x">>

\* str::split('/').count()
split_count(s) == Cardinality({i \in DOMAIN s : s[i] = "/"}) + 1

\* Url::parse: a string with a scheme parses to itself, one without is a
\* relative URL without a base
Url_parse(s) ==
    IF Len(s) >= 6 /\ SubSeq(s, 1, 6) = SubSeq(GitHub, 1, 6) THEN s ELSE ERR

\* chunk_repo.rs 114-123
parse_repo_url(repo) ==
    IF Url_parse(repo) # ERR THEN Url_parse(repo)
    ELSE IF split_count(repo) = 2 THEN Url_parse(GitHub \o repo)
    ELSE ERR

\* str::rfind("_v"): the last position where "_v" starts, 0 for None
rfind_v(name) ==
    LET at == {i \in 1..(Len(name) - 1) : name[i] = "_" /\ name[i + 1] = "v"}
    IN  IF at = {} THEN 0 ELSE CHOOSE i \in at : \A j \in at : j <= i

\* backend.rs 440-449: the crate name and version read out of a collection name
parse_collection_name(name) ==
    LET v_pos == rfind_v(name) IN
    IF v_pos = 0 THEN None
    ELSE [crate_name |-> replace(SubSeq(name, 1, v_pos - 1), "_", "-"),
          version |-> replace(SubSeq(name, v_pos + 2, Len(name)), "_", ".")]

NameJob == <<"names", 1>>

\* the identifiers of two package targets and of two repositories
NameInit ==
    /\ store = [c \in Collections |-> Absent]
    /\ embedded_before = {}
    /\ ops = <<>>
    /\ calls = <<>>
    /\ cancelled = FALSE
    /\ \E n1 \in Names, n2 \in Names, v1 \in VersionStrings, v2 \in VersionStrings :
         runs = (NameJob :>
                   [kind |-> "names",
                    package |-> <<[crate_name |-> n1, version |-> v1],
                                  [crate_name |-> n2, version |-> v2]>>,
                    repository |-> <<owner_repo(n1), owner_repo(n2)>>,
                    table_name |-> <<>>, listed |-> <<>>,
                    repo_table_name |-> <<>>, given |-> <<>>, url |-> <<>>,
                    url_table_name |-> <<>>])

\* utils.rs 23-29 applied to both package targets
gen_table_name_apply ==
    /\ runs[NameJob].table_name = <<>>
    /\ runs' = [runs EXCEPT ![NameJob].table_name =
                   [i \in 1..2 |-> gen_table_name(runs[NameJob].package[i].crate_name,
                                                  runs[NameJob].package[i].version)]]
    /\ UNCHANGED <<store, ops, calls, cancelled, embedded_before>>

\* backend.rs 436-449 applied to the two collection names
list_embedded_crates_apply ==
    /\ runs[NameJob].table_name # <<>>
    /\ runs[NameJob].listed = <<>>
    /\ runs' = [runs EXCEPT ![NameJob].listed =
                   [i \in 1..2 |-> parse_collection_name(runs[NameJob].table_name[i])]]
    /\ UNCHANGED <<store, ops, calls, cancelled, embedded_before>>

\* utils.rs 33-35 applied to both repositories as given
gen_table_name_without_version_apply ==
    /\ runs[NameJob].repo_table_name = <<>>
    /\ runs' = [runs EXCEPT ![NameJob].repo_table_name =
                   [i \in 1..2 |-> gen_table_name_without_version(runs[NameJob].repository[i])]]
    /\ UNCHANGED <<store, ops, calls, cancelled, embedded_before>>

\* the first repository given in one of its forms: chunk_repo.rs 114-123
\* for the clone, data_store.rs 119-120 for the collection
parse_repo_url_apply ==
    /\ runs[NameJob].given = <<>>
    /\ \E name \in Names :
         /\ owner_repo(name) = runs[NameJob].repository[1]
         /\ LET forms == <<owner_repo(name), github_url(name), blob_url(name)>>
            IN  runs' = [runs EXCEPT
                   ![NameJob].given = forms,
                   ![NameJob].url = [i \in 1..3 |-> parse_repo_url(forms[i])],
                   ![NameJob].url_table_name =
                       [i \in 1..3 |-> gen_table_name_without_version(forms[i])]]
    /\ UNCHANGED <<store, ops, calls, cancelled, embedded_before>>

NameNext ==
    \/ gen_table_name_apply
    \/ list_embedded_crates_apply
    \/ gen_table_name_without_version_apply
    \/ parse_repo_url_apply

NameSpec == NameInit /\ [][NameNext]_vars

---------------------------------------------------------------------------
(* The Rust chunker (chunks/rust.rs).  A file is the list of the children  *)
(* of its root node, each with its kind and its first and last row; the    *)
(* text matters only through the number of tokens of the lines extracted.  *)

ChildCounts == {1, 2, 3}  \* how many children the root node has
MaxRow == 3         \* rows of a file are 0..MaxRow
MAX_TOKENS == 8192  \* chunks/rust.rs

NODES_TO_IGNORE == {"use_declaration"}
NodeKinds == {"struct_item", "function_item", "line_comment", "block_comment",
              "attribute_item", "use_declaration"}

\* the rows of a top-level node as tree-sitter reports them: an attribute is
\* on one row here, a // comment ends on its row and a /// comment, whose
\* node takes in its line break, at the start of the next row
NodeSet ==
    {n \in [kind : NodeKinds, start : 0..MaxRow, end : 0..MaxRow] :
        /\ n.start <= n.end
        /\ n.kind = "attribute_item" => n.start = n.end
        /\ n.kind = "line_comment" => n.end <= n.start + 1}

\* siblings come in source order; nothing follows a // comment on its row
Follows(prev, next) ==
    /\ prev.end <= next.start
    /\ (prev.kind = "line_comment" /\ prev.end = prev.start) => prev.end < next.start

RECURSIVE Siblings(_)
Siblings(n) ==
    IF n = 1 THEN {<<node>> : node \in NodeSet}
    ELSE UNION {{s \o <<node>> : node \in {m \in NodeSet : Follows(s[Len(s)], m)}} :
                   s \in Siblings(n - 1)}


\* an adjacency test that takes an attribute for no decoration
is_adjacent_line_comment(previous_sibling, next_sibling) ==
    /\ previous_sibling.kind = "line_comment"
    /\ previous_sibling.end + 1 >= next_sibling.start

\* rust.rs 106-109
is_adjacent_decoration(previous_sibling, next_sibling) ==
    /\ previous_sibling.kind \in {"line_comment", "attribute_item"}
    /\ previous_sibling.end + 1 >= next_sibling.start

RECURSIVE find_first_decoration(_, _)
\* rust.rs 111-125
find_first_decoration(nodes, i) ==
    IF i > 1 /\ is_adjacent_decoration(nodes[i - 1], nodes[i])
    THEN find_first_decoration(nodes, i - 1)
    ELSE nodes[i].start

ItemKinds == {"struct_item", "enum_item", "function_item", "impl_item"}

RECURSIVE is_comment_before_item(_, _)
\* rust.rs 153-174
is_comment_before_item(nodes, i) ==
    IF i = Len(nodes) THEN FALSE
    ELSE LET check_node == nodes[i]
             next == nodes[i + 1]
         IN  IF next.kind \in ItemKinds
             THEN check_node.end + 1 >= next.start
             ELSE IF /\ next.kind \in {"line_comment", "attribute_item"}
                     /\ next.start <= check_node.end + 1
                  THEN is_comment_before_item(nodes, i + 1)
                  ELSE FALSE

RECURSIVE find_last_consecutive_comment(_, _)
\* rust.rs 176-192
find_last_consecutive_comment(nodes, i) ==
    IF /\ i < Len(nodes)
       /\ nodes[i + 1].kind = "line_comment"
       /\ nodes[i + 1].start <= nodes[i].end + 1
    THEN find_last_consecutive_comment(nodes, i + 1)
    ELSE nodes[i].end

\* rust.rs 212-242 with the unwrap_or_default of its callers: the text is
\* kept, or cut to its first MAX_TOKENS tokens, or replaced by the empty
\* string when those tokens do not decode
trim_to_token_limit(tokens, decodes) ==
    IF tokens <= MAX_TOKENS THEN [text |-> "whole", tokens |-> tokens]
    ELSE IF decodes THEN [text |-> "first MAX_TOKENS tokens", tokens |-> MAX_TOKENS]
    ELSE [text |-> "", tokens |-> 0]

\* rust.rs 82-91
ChunkKind(kind) ==
    CASE kind = "struct_item" -> "Struct"
      [] kind = "enum_item" -> "Enum"
      [] kind = "function_item" -> "Function"
      [] kind = "impl_item" -> "Impl"

\* rust.rs 127-151: None, or the Comment chunk; besides the fields of Chunk the
\* record keeps the child it was made for and the token count of the lines
\* extracted for it
handle_comment(nodes, i, start_line, tokens, decodes) ==
    IF is_comment_before_item(nodes, i) THEN None
    ELSE LET end_line == find_last_consecutive_comment(nodes, i) IN
         [kind |-> "Comment", start_line |-> start_line + 1, end_line |-> end_line + 1,
          content |-> trim_to_token_limit(tokens, decodes),
          node |-> i, extracted |-> tokens]

\* rust.rs 66-104: None, or the chunk of child i
process_node(nodes, i, tokens, decodes) ==
    LET node == nodes[i]
        start_line == IF i > 1 /\ is_adjacent_decoration(nodes[i - 1], node)
                      THEN find_first_decoration(nodes, i - 1)
                      ELSE node.start
    IN  IF node.kind \in ItemKinds
        THEN [kind |-> ChunkKind(node.kind), start_line |-> start_line + 1,
              end_line |-> node.end + 1,
              content |-> trim_to_token_limit(tokens, decodes),
              node |-> i, extracted |-> tokens]
        ELSE IF node.kind = "line_comment"
             THEN handle_comment(nodes, i, start_line, tokens, decodes)
             ELSE None

ChunkJob == <<"chunks", 1>>

\* the token counts the extracted lines of a chunk may have
TokenCounts == {1, MAX_TOKENS, MAX_TOKENS + 1}

ChunkInit ==
    /\ store = [c \in Collections |-> Absent]
    /\ embedded_before = {}
    /\ ops = <<>>
    /\ calls = <<>>
    /\ cancelled = FALSE
    /\ \E n \in ChildCounts : \E nodes \in Siblings(n) :
         runs = (ChunkJob :> [kind |-> "chunks", nodes |-> nodes, child |-> 1,
                              processed_lines |-> {}, chunks |-> <<>>])

\* rust.rs 41-54: one pass of the loop over the children of the root node
extract_rust_chunks ==
    /\ runs[ChunkJob].child <= Len(runs[ChunkJob].nodes)
    /\ \E tokens \in TokenCounts, decodes \in BOOLEAN :
         LET job == runs[ChunkJob]
             i == job.child
             node == job.nodes[i]
             chunk == IF \/ node.kind \in NODES_TO_IGNORE
                         \/ node.start \in job.processed_lines
                      THEN None
                      ELSE process_node(job.nodes, i, tokens, decodes)
         IN  runs' = [runs EXCEPT ![ChunkJob] =
                 [job EXCEPT
                    !.child = i + 1,
                    !.chunks = IF chunk = None THEN @ ELSE Append(@, chunk),
                    !.processed_lines =
                        IF chunk = None THEN @
                        ELSE @ \cup ((chunk.start_line - 1)..(chunk.end_line - 1))]]
    /\ UNCHANGED <<store, ops, calls, cancelled, embedded_before>>

ChunkNext == extract_rust_chunks

ChunkSpec == ChunkInit /\ [][ChunkNext]_vars

---------------------------------------------------------------------------
(* embed_chunks (documentation.rs 47-107, github_processor.rs 46-106) with *)
(* its batches in flight.  The upserts of one batch result are one step    *)
(* here; `stored` lists the batch results whose pairs they have put into   *)
(* the collection.                                                         *)

EmbedJob == <<"embed_chunks", 1>>

\* the numbers of chunks handed to embed_chunks: none, one, a full batch,
\* one more, and more than CONCURRENT_BATCHES full batches
ChunkCounts == {0, 1, BATCH_SIZE, BATCH_SIZE + 1, BATCH_SIZE * CONCURRENT_BATCHES + 1}

\* what the endpoint may do with the first or the last request of a run
\* instead of answering one vector per input: fail, or answer one vector
\* less or one more
Faults == {"error", "short", "long"}

BatchInit ==
    /\ store = [c \in Collections |-> Absent]
    /\ embedded_before = {}
    /\ ops = <<>>
    /\ calls = <<>>
    /\ cancelled = FALSE
    /\ \E n \in ChunkCounts :
         \E faulty \in {0, Min(1, n), Len(Batches(Chunks(n)))}, fault \in Faults :
            runs = (EmbedJob :>
                      [kind |-> "embed_chunks", pc |-> "start", chunks |-> Chunks(n),
                       faulty |-> faulty,
                       fault |-> IF faulty = 0 THEN "none" ELSE fault,
                       batches |-> <<>>, next |-> 1, in_flight |-> {},
                       results |-> <<>>, stored |-> <<>>, result |-> ""])

\* the length of response.data for batch b, -1 for a failed request
ResponseLen(job, b) ==
    LET len == Len(job.batches[b]) IN
    IF b # job.faulty THEN len
    ELSE CASE job.fault = "error" -> -1
           [] job.fault = "short" -> len - 1
           [] job.fault = "long" -> len + 1

\* documentation.rs 47-58: the chunks are cut into batches; collect() of an
\* empty stream is ready at once
embed_chunks_batches ==
    /\ runs[EmbedJob].pc = "start"
    /\ LET batches == Batches(runs[EmbedJob].chunks) IN
       runs' = [runs EXCEPT ![EmbedJob].batches = batches,
                            ![EmbedJob].pc = IF batches = <<>> THEN "ret" ELSE "buffer",
                            ![EmbedJob].result = IF batches = <<>> THEN Ok ELSE ""]
    /\ UNCHANGED <<store, ops, calls, cancelled, embedded_before>>

\* documentation.rs 60-74, 87: buffer_unordered takes the next batch future
\* from the stream while fewer than CONCURRENT_BATCHES are in flight
buffer_unordered_send ==
    /\ runs[EmbedJob].pc = "buffer"
    /\ runs[EmbedJob].next <= Len(runs[EmbedJob].batches)
    /\ Cardinality(runs[EmbedJob].in_flight) < CONCURRENT_BATCHES
    /\ runs' = [runs EXCEPT ![EmbedJob].in_flight = @ \cup {runs[EmbedJob].next},
                            ![EmbedJob].next = @ + 1]
    /\ UNCHANGED <<store, ops, calls, cancelled, embedded_before>>

\* documentation.rs 71-89: one of the batches in flight is answered, once
\* the buffer is full or the stream is exhausted; collect() is ready when
\* the last one is
buffer_unordered_answer(b) ==
    /\ runs[EmbedJob].pc = "buffer"
    /\ b \in runs[EmbedJob].in_flight
    /\ \/ Cardinality(runs[EmbedJob].in_flight) = CONCURRENT_BATCHES
       \/ runs[EmbedJob].next > Len(runs[EmbedJob].batches)
    /\ LET job == runs[EmbedJob]
           batch_results == BatchResult(job.batches[b], ResponseLen(job, b))
           left == job.in_flight \ {b}
       IN  runs' = [runs EXCEPT ![EmbedJob] =
               [job EXCEPT !.in_flight = left,
                           !.results = Append(@, [batch |-> b, pairs |-> batch_results]),
                           !.pc = IF left = {} /\ job.next > Len(job.batches)
                                  THEN "store" ELSE "buffer"]]
    /\ UNCHANGED <<store, ops, calls, cancelled, embedded_before>>

\* documentation.rs 93-106: the next batch result is taken; an Err ends
\* embed_chunks, and so does an upsert that fails, here the first of the
\* result
embed_chunks_store ==
    /\ runs[EmbedJob].pc = "store"
    /\ LET job == runs[EmbedJob]
           head == Head(job.results)
       IN  \E upserted \in BOOLEAN :
             /\ (head.pairs = <<ERR>> \/ head.pairs = <<>>) => upserted
             /\ runs' = [runs EXCEPT ![EmbedJob] =
                  IF head.pairs = <<ERR>>
                  THEN [job EXCEPT !.pc = "ret", !.result = "Failed to create embeddings"]
                  ELSE IF ~upserted
                  THEN [job EXCEPT !.pc = "ret", !.result = "store error"]
                  ELSE [job EXCEPT
                          !.stored = Append(@, head),
                          !.results = Tail(@),
                          !.pc = IF Tail(job.results) = <<>> THEN "ret" ELSE "store",
                          !.result = IF Tail(job.results) = <<>> THEN Ok ELSE ""]]
    /\ UNCHANGED <<store, ops, calls, cancelled, embedded_before>>

BatchNext ==
    \/ embed_chunks_batches
    \/ buffer_unordered_send
    \/ \E b \in 1..(CONCURRENT_BATCHES + 1) : buffer_unordered_answer(b)
    \/ embed_chunks_store

BatchSpec == BatchInit /\ [][BatchNext]_vars

---------------------------------------------------------------------------
(* One repository ingestion with the walk of process_github_repo           *)
(* (chunk_repo.rs 49-91) file by file.  A chunk is named by the number of  *)
(* the file it comes from; `file` is the place of the loop in the list of  *)
(* files, 0 before the clone has completed.                                *)

MaxFiles == 2       \* .rs files of the cloned repository

Walk == <<"repo", 0>>

\* what happens to a file of the walk: it cannot be read, extract_chunks
\* returns Err, the blocking task of extract_chunks does not complete
\* (JoinError), extract_chunks returns no chunk, or it returns a chunk
FileOutcomes == {"unreadable", "extract_err", "join_err", "empty", "chunks"}

RECURSIVE FileLists(_)
FileLists(n) ==
    IF n = 0 THEN {<<>>}
    ELSE {<<>>} \cup {<<o>> \o fs : o \in FileOutcomes, fs \in FileLists(n - 1)}

\* a walk that stops at the first file that cannot be read
walk_outcome_strict(outcome) ==
    CASE outcome \in {"unreadable", "join_err"} -> "abort"
      [] outcome \in {"extract_err", "empty"} -> "skip"
      [] outcome = "chunks" -> "insert"

\* chunk_repo.rs 73-87: what the loop does with a file
walk_outcome(outcome) ==
    CASE outcome = "unreadable" -> "skip"               \* if let Ok(source) = ..
      [] outcome = "join_err" -> "abort"                \* .await.map_err(..)?
      [] outcome \in {"extract_err", "empty"} -> "skip" \* if let Ok(chunks) = .. && !is_empty()
      [] outcome = "chunks" -> "insert"

\* the enumerations of a set: the orders in which into_iter() may give the
\* entries of a HashMap
Orders(S) == {order \in [1..Cardinality(S) -> S] : Range(order) = S}

WalkInit ==
    /\ store = [c \in Collections |-> Absent]
    /\ embedded_before = {}
    /\ ops = <<>>
    /\ calls = <<>>
    /\ cancelled = FALSE
    /\ \E files \in FileLists(MaxFiles) :
         runs = (Walk :> (NewRun("repo", RepoName, None, "clone")
                            @@ [files |-> files, file |-> 0, result_map |-> {}]))

\* github_processor.rs 15-25 after the walk: the chunks of the map are
\* flattened and DataStore::new asks collection_exists
walk_end(r, order) == [r EXCEPT !.pc = "try_new", !.chunks = order]

\* chunk_repo.rs 53-55: the blocking clone completes
clone_repo(t) ==
    /\ t \in DOMAIN runs
    /\ "files" \in DOMAIN runs[t]
    /\ runs[t].pc = "clone"
    /\ \/ runs' = [runs EXCEPT ![t] = Finish(@, "Failed to process GitHub repository")]
       \/ runs' = [runs EXCEPT ![t] =
                      IF @.files = <<>> THEN walk_end(@, <<>>)
                      ELSE [@ EXCEPT !.pc = "walk", !.file = 1]]
    /\ UNCHANGED <<store, ops, calls, cancelled, embedded_before>>

\* chunk_repo.rs 60-88: one pass of the loop over the .rs files
walk_file(t) ==
    /\ t \in DOMAIN runs
    /\ runs[t].pc = "walk"
    /\ LET r == runs[t]
           todo == walk_outcome(r.files[r.file])
           result == IF todo = "insert" THEN r.result_map \cup {r.file} ELSE r.result_map
       IN  \E order \in Orders(result) :
             runs' = [runs EXCEPT ![t] =
                 IF todo = "abort"
                 THEN Finish(r, "Failed to process GitHub repository")
                 ELSE IF r.file = Len(r.files)
                 THEN walk_end([r EXCEPT !.result_map = result], order)
                 ELSE [r EXCEPT !.result_map = result, !.file = @ + 1]]
    /\ UNCHANGED <<store, ops, calls, cancelled, embedded_before>>

WalkNext ==
    \/ clone_repo(Walk)
    \/ walk_file(Walk)
    \/ try_new_exists(Walk)
    \/ try_new_create(Walk)
    \/ reset_delete(Walk)
    \/ reset_create(Walk)
    \/ embed_chunks_collect(Walk)
    \/ add_embedding_with_content(Walk)
    \/ store_metadata(Walk)

WalkSpec == WalkInit /\ [][WalkNext]_vars

---------------------------------------------------------------------------
(* The second pass of create_doc_items_with_source (my_types.rs 143-191):  *)
(* functions inside impl blocks are filtered out by their spans.           *)

MaxSpanRow == 2     \* lines of a source file are 1..MaxSpanRow

SpanCols == {0, 1}
ItemCounts == {1, 2, 3}   \* how many items the first pass has produced
ItemTypes == {"Struct", "Function", "Impl"}
Filenames == {"a.rs", "b.rs"}

\* (row, column) pairs in lexicographic order
Lex_le(p, q) == p[1] < q[1] \/ (p[1] = q[1] /\ p[2] <= q[2])

Positions == (1..MaxSpanRow) \X SpanCols

\* FileRange values whose start is not after their end
FileRanges == {span \in [start : Positions, end : Positions] : Lex_le(span.start, span.end)}

DocItems == [type : ItemTypes, filename : Filenames, span : FileRanges]

\* the lists of n items
DocItemLists(n) == [1..n -> DocItems]

\* a containment test that takes equal ends for not contained
is_span_strictly_within(outer, inner) ==
    /\ \/ outer.start[1] < inner.start[1]
       \/ (outer.start[1] = inner.start[1] /\ outer.start[2] < inner.start[2])
    /\ \/ outer.end[1] > inner.end[1]
       \/ (outer.end[1] = inner.end[1] /\ outer.end[2] > inner.end[2])

\* my_types.rs 186-191
is_span_within(outer, inner) ==
    /\ \/ outer.start[1] < inner.start[1]
       \/ (outer.start[1] = inner.start[1] /\ outer.start[2] <= inner.start[2])
    /\ \/ outer.end[1] > inner.end[1]
       \/ (outer.end[1] = inner.end[1] /\ outer.end[2] >= inner.end[2])

\* my_types.rs 150-158: the spans of the impl items of one file
impl_spans(doc_items, filename) ==
    {doc_items[i].span : i \in {j \in DOMAIN doc_items :
        doc_items[j].type = "Impl" /\ doc_items[j].filename = filename}}

\* my_types.rs 148-183
filter_impl_functions(doc_items) ==
    SelectSeq(doc_items, LAMBDA item :
        \/ item.type # "Function"
        \/ \A impl_range \in impl_spans(doc_items, item.filename) :
             ~is_span_within(impl_range, item.span))

FilterJob == <<"doc_items", 1>>

FilterInit ==
    /\ store = [c \in Collections |-> Absent]
    /\ embedded_before = {}
    /\ ops = <<>>
    /\ calls = <<>>
    /\ cancelled = FALSE
    /\ \E n \in ItemCounts : \E doc_items \in DocItemLists(n) :
         runs = (FilterJob :> [kind |-> "doc_items", pc |-> "first_pass",
                               doc_items |-> doc_items, filtered_items |-> <<>>])

\* my_types.rs 143-144: the second pass
filter_impl_functions_apply ==
    /\ runs[FilterJob].pc = "first_pass"
    /\ runs' = [runs EXCEPT ![FilterJob].pc = "ret",
                            ![FilterJob].filtered_items =
                                filter_impl_functions(runs[FilterJob].doc_items)]
    /\ UNCHANGED <<store, ops, calls, cancelled, embedded_before>>

FilterNext == filter_impl_functions_apply

FilterSpec == FilterInit /\ [][FilterNext]_vars

---------------------------------------------------------------------------
(* Properties *)

Tasks == {k \in CallIds : k \in DOMAIN ops}
Terminal(status) == status \in {Completed, Failed}

C2_AtMostOneStarts ==
    \A k, j \in Began :
        (/\ k \in calls[j].overlap
         /\ calls[k].crate_name = calls[j].crate_name
         /\ calls[k].version = calls[j].version)
        => ~(calls[k].result = "started" /\ calls[j].result = "started")

Returned(r) == r.pc \in {"ret", "done"}
Ingestions == {t \in DOMAIN runs : runs[t].kind \in {"crate", "repo"}}

\* C3: an ingestion run that has returned has written the metadata point
\* exactly once if it succeeded and not at all if it failed.
C3_MetadataOncePerRun ==
    \A t \in Ingestions :
        Returned(runs[t]) =>
            runs[t].meta_writes = (IF runs[t].result = Ok THEN 1 ELSE 0)

WrittenBy(c, t) == {p \in ContentPoints(c) : p.by = t}

\* C4: when an ingestion has completed and no other ingestion has run, the
\* doc_count of the collection's metadata is the number of content points
\* in the collection.
C4_DocCountIsPointCount ==
    \A t \in Ingestions :
        (Ingestions = {t} /\ Returned(runs[t]) /\ runs[t].result = Ok)
        => LET c == collection_name(runs[t]) IN
           \A p \in SentinelPoints(c) :
               p.payload.metadata.doc_count = Cardinality(WrittenBy(c, t))

\* C5: a query that succeeded returned at most max_results results, each
\* the content of a point search_points answered with whose payload has a
\* content field, and none of them the metadata point.
C5_ResultsHaveContent ==
    \A t \in DOMAIN runs :
        (runs[t].kind = "query" /\ Returned(runs[t]) /\ runs[t].result = Ok)
        => /\ Len(runs[t].results) <= runs[t].limit
           /\ \A i \in DOMAIN runs[t].results :
                /\ runs[t].results[i].point # MetadataPointId
                /\ \E p \in runs[t].raw :
                     /\ p.id = runs[t].results[i].point
                     /\ HasContent(p)
                     /\ p.payload.content = runs[t].results[i].content

\* search_points answered with the metadata point and a content point
C5_Witness ==
    /\ Query \in DOMAIN runs
    /\ runs[Query].result = Ok
    /\ \E p \in runs[Query].raw : p.id = MetadataPointId
    /\ Len(runs[Query].results) >= 1

TookCancelledBranch(k) ==
    /\ runs[Task(k)].pc = "done"
    /\ runs[Task(k)].result = "Operation cancelled"

\* C6 as claimed: the record of a cancelled ingestion is Failed with the
\* message "Operation cancelled".
C6_MessageIsOperationCancelled ==
    \A k \in Tasks :
        TookCancelledBranch(k) =>
            ops[k].status = Failed /\ ops[k].message = "Operation cancelled"

\* C6 as amended: the record of an ingestion whose task took the cancelled
\* branch is Failed with the message "Failed to embed docs: Operation
\* cancelled".
C6_CancelledIsFailed ==
    \A k \in Tasks :
        TookCancelledBranch(k) =>
            /\ ops[k].status = Failed
            /\ ops[k].message = "Failed to embed docs: Operation cancelled"

C6_Witness == \E k \in Tasks : TookCancelledBranch(k) /\ ops[k].status = Failed

\* the number of times x occurs in s
Count(s, x) == Cardinality({i \in DOMAIN s : s[i] = x})
SameBag(s, u) == \A x \in Range(s) \cup Range(u) : Count(s, x) = Count(u, x)

FoundExisting(k) ==
    /\ calls[k].pc = "returned"
    /\ calls[k].result \in {"already_embedded", "already_embedded_legacy", "conflict"}

Idempotent(result) == result \in {"already_embedded", "already_embedded_legacy"}

\* C7 as claimed: a call that finds the collection existing answers
\* 'already embedded' exactly when the requested features equal, as sorted
\* lists, the features of the collection's metadata, and Conflict otherwise.
C7_SuccessIffSameFeatures ==
    \A k \in Began :
        FoundExisting(k) =>
            /\ Idempotent(calls[k].result) <=>
                  (/\ calls[k].existing # None
                   /\ SameBag(calls[k].existing.features, calls[k].features))
            /\ ~Idempotent(calls[k].result) => calls[k].result = "conflict"

\* C7 as amended: when the metadata is read the answer is 'already
\* embedded' exactly when the two feature lists are equal up to order and
\* Conflict otherwise; when no metadata is read the answer is the legacy
\* 'already embedded', whatever the features.
C7_FeaturesDecide ==
    \A k \in Began :
        FoundExisting(k) =>
            IF calls[k].existing = None
            THEN calls[k].result = "already_embedded_legacy"
            ELSE IF SameBag(calls[k].existing.features, calls[k].features)
                 THEN calls[k].result = "already_embedded"
                 ELSE calls[k].result = "conflict"

\* 'already embedded' for features given in another order than stored
C7_Witness ==
    \E k \in Began :
        /\ FoundExisting(k)
        /\ calls[k].result = "already_embedded"
        /\ calls[k].existing.features # calls[k].features

CompletedIngestion(c) ==
    \/ c \in embedded_before
    \/ \E t \in Ingestions :
         collection_name(runs[t]) = c /\ Returned(runs[t]) /\ runs[t].result = Ok

\* C8: a collection with a metadata point has had an ingestion run to
\* completion, and the collection of a Completed operation has a metadata
\* point.
C8_MetadataIffCompleted ==
    /\ \A c \in Collections : SentinelPoints(c) # {} => CompletedIngestion(c)
    /\ \A k \in Tasks :
         ops[k].status = Completed =>
             SentinelPoints(gen_table_name(ops[k].crate_name, ops[k].version)) # {}

\* C9: the id of an upsert in flight is positive and is not the id of a
\* content point another upsert has put into the collection.
C9_FreshPositiveId ==
    \A t \in Ingestions :
        runs[t].pc = "upsert" =>
            /\ runs[t].req.id > 0
            /\ \A p \in ContentPoints(collection_name(runs[t])) : p.id # runs[t].req.id

\* C10: the zero vector store_metadata sends, and the one stored with a
\* metadata point, has the vector size the collection was created with.
C10_MetadataVectorFits ==
    /\ \A t \in Ingestions :
         (runs[t].pc = "store_metadata" /\ collection_exists(collection_name(runs[t])))
         => MetadataPoint(runs[t], t).vector.zeros = store[collection_name(runs[t])].size
    /\ \A c \in Collections : \A p \in SentinelPoints(c) :
         p.vector.zeros = store[c].size

StatusStep ==
    /\ StatusCall \in DOMAIN runs'
    /\ StatusCall \in DOMAIN runs => runs'[StatusCall] # runs[StatusCall]

\* C11: a status call answers OperationNotFound, an invalid-request error,
\* exactly when its id is not in the registry, and otherwise answers with
\* the record's status and message; it leaves the registry unchanged; no
\* step removes a record, and the id an embed call returned is in the
\* registry.
C11_NotFoundIffNeverInserted ==
    /\ [][/\ DOMAIN ops \subseteq DOMAIN ops'
          /\ StatusStep =>
               LET id == runs'[StatusCall].operation_id
                   response == runs'[StatusCall].result
               IN  /\ ops' = ops
                   /\ response = [code |-> "invalid_request", error |-> "OperationNotFound"]
                        <=> id \notin DOMAIN ops
                   /\ id \in DOMAIN ops =>
                        /\ response.code = "success"
                        /\ response.message = ops[id].message]_vars
    /\ [](\A k \in Began : calls[k].result = "started" => k \in DOMAIN ops)

\* OperationNotFound for one id while the registry holds a terminal record
C11_Witness ==
    /\ StatusCall \in DOMAIN runs
    /\ runs[StatusCall].result.code = "invalid_request"
    /\ \E k \in DOMAIN ops : Terminal(ops[k].status)

C13_OpeningIsEnsure ==
    [][\A c \in Collections :
         IF collection_exists(c) THEN store'[c] = store[c]
         ELSE store'[c] # Absent =>
                store'[c].distance = "Cosine" /\ store'[c].points = {}]_vars

\* str::to_lowercase over the letters of the names
to_lowercase(s) == [i \in DOMAIN s |-> IF s[i] = "A" THEN "a" ELSE s[i]]

NamesComputed(field) == NameJob \in DOMAIN runs /\ runs[NameJob][field] # <<>>

\* C14: the collection name of a package target is the lowercased name with
\* '-' replaced by '_', then "_v", then the version with '.' replaced by '_'.
C14_LowercaseNameFormula ==
    NamesComputed("table_name") =>
        \A i \in 1..2 :
            LET target == runs[NameJob].package[i] IN
            runs[NameJob].table_name[i] =
                to_lowercase(replace(target.crate_name, "-", "_"))
                    \o <<"_", "v">> \o replace(target.version, ".", "_")

\* C15: two different package targets have different collection names, and
\* so have two different repositories.
C15_NamesInjective ==
    /\ NamesComputed("table_name") =>
         (runs[NameJob].package[1] # runs[NameJob].package[2]
            => runs[NameJob].table_name[1] # runs[NameJob].table_name[2])
    /\ NamesComputed("repo_table_name") =>
         (runs[NameJob].repository[1] # runs[NameJob].repository[2]
            => runs[NameJob].repo_table_name[1] # runs[NameJob].repo_table_name[2])

\* C16: owner/repo, its GitHub URL and a blob URL below it all parse to the
\* URL https://github.com/owner/repo and all name the collection
\* repo_<owner>_<repo> with hyphens as underscores.
C16_FormsNameOneCollection ==
    NamesComputed("url") =>
        \A i \in 1..3 :
            /\ runs[NameJob].url[i] = GitHub \o runs[NameJob].repository[1]
            /\ runs[NameJob].url_table_name[i] =
                 <<"r", "e", "p", "o", "_">>
                    \o replace(replace(runs[NameJob].repository[1], "-", "_"), "/", "_")

\* C20: the crate name and version the list tool reads out of a collection
\* name are those the name was made from, and they name the same collection.
C20_ListRecoversTarget ==
    NamesComputed("listed") =>
        \A i \in 1..2 :
            /\ runs[NameJob].listed[i] = runs[NameJob].package[i]
            /\ gen_table_name(runs[NameJob].listed[i].crate_name,
                              runs[NameJob].listed[i].version)
                 = runs[NameJob].table_name[i]


\* the rows of a chunk, counted from 0 as tree-sitter counts them
ChunkRows(chunk) == (chunk.start_line - 1)..(chunk.end_line - 1)

ItemChunkKinds == {"Struct", "Enum", "Function", "Impl"}

ChunkList == runs[ChunkJob].chunks

\* C17: no source line lies in the line range of two chunks of one file whose
\* kinds are both item kinds, whatever the arrangement of the top-level
\* siblings
C17_ItemChunksDisjoint ==
    \A a, b \in DOMAIN ChunkList :
        (/\ a # b
         /\ ChunkList[a].kind \in ItemChunkKinds
         /\ ChunkList[b].kind \in ItemChunkKinds)
        => ChunkRows(ChunkList[a]) \cap ChunkRows(ChunkList[b]) = {}

CommentKinds == {"line_comment", "block_comment"}

RECURSIVE FollowedByItem(_, _)
\* child i is followed by a recognized item through a contiguous chain of
\* comment and attribute siblings
FollowedByItem(nodes, i) ==
    /\ i < Len(nodes)
    /\ nodes[i + 1].start <= nodes[i].end + 1
    /\ \/ nodes[i + 1].kind \in ItemKinds
       \/ /\ nodes[i + 1].kind \in CommentKinds \cup {"attribute_item"}
          /\ FollowedByItem(nodes, i + 1)

InCommentChunk(nodes, i) ==
    \E c \in DOMAIN ChunkList :
        /\ ChunkList[c].kind = "Comment"
        /\ (nodes[i].start)..(nodes[i].end) \subseteq ChunkRows(ChunkList[c])

\* C18: when the file has been chunked, a comment sibling is in a Comment
\* chunk if and only if no recognized item follows it through a contiguous
\* chain of comment and attribute siblings
C18_CommentChunkIffNoItemFollows ==
    LET job == runs[ChunkJob] IN
    job.child > Len(job.nodes) =>
        \A i \in DOMAIN job.nodes :
            job.nodes[i].kind \in CommentKinds =>
                (InCommentChunk(job.nodes, i) <=> ~FollowedByItem(job.nodes, i))

\* C19: a chunk whose extracted lines exceed MAX_TOKENS keeps the line range
\* of its node and holds a text of exactly MAX_TOKENS tokens; every chunk has
\* 1 <= start_line <= end_line and at most MAX_TOKENS tokens
C19_TruncatedToLimit ==
    \A c \in DOMAIN ChunkList :
        LET chunk == ChunkList[c]
            node == runs[ChunkJob].nodes[chunk.node]
        IN  /\ 1 <= chunk.start_line
            /\ chunk.start_line <= chunk.end_line
            /\ chunk.content.tokens <= MAX_TOKENS
            /\ chunk.extracted > MAX_TOKENS =>
                 /\ chunk.content.tokens = MAX_TOKENS
                 /\ chunk.kind \in ItemChunkKinds => chunk.end_line = node.end + 1

Chunked == runs[ChunkJob].child > Len(runs[ChunkJob].nodes)

\* the chunks whose line range takes in every row of child i
Covering(nodes, i) ==
    {c \in DOMAIN ChunkList : (nodes[i].start)..(nodes[i].end) \subseteq ChunkRows(ChunkList[c])}

\* C30: when the file has been chunked, every recognized top-level item is
\* covered by exactly one chunk, also an item that starts on the row on
\* which the previous chunk ends
C30_EveryItemInOneChunk ==
    Chunked =>
        \A i \in DOMAIN runs[ChunkJob].nodes :
            runs[ChunkJob].nodes[i].kind \in ItemKinds =>
                Cardinality(Covering(runs[ChunkJob].nodes, i)) = 1

DecorationKinds == {"line_comment", "attribute_item"}

\* the children from which an unbroken chain of decorations leads to child
\* i, each ending at most one row before the next one starts; i is one
ChainBefore(nodes, i) ==
    {j \in 1..i : \A m \in j..(i - 1) :
        /\ nodes[m].kind \in DecorationKinds
        /\ nodes[m].end + 1 >= nodes[m + 1].start}

FirstOfChain(nodes, i) == CHOOSE j \in ChainBefore(nodes, i) : \A m \in ChainBefore(nodes, i) : j <= m

PkgQueryStep ==
    /\ PkgQuery \in DOMAIN runs'
    /\ PkgQuery \in DOMAIN runs => runs'[PkgQuery] # runs[PkgQuery]

\* C29: no step of a query call changes the vector store or the operation
\* registry; in particular none creates a collection that did not exist
C29_QueryChangesNothing ==
    [][PkgQueryStep => store' = store /\ ops' = ops]_vars

Rejected(result) ==
    result \in {"version_resolution_failed", "features_fetch_failed",
                "invalid_features", "conflict"}

\* C22: a call that is rejected or that answers 'already embedded' has
\* inserted no record and spawned no ingestion, no call with a feature the
\* crate does not declare has a record, and a record and a task exist for
\* exactly the calls that returned an operation id
C22_OnlyStartedCallsInsert ==
    \A k \in Began :
        /\ (Rejected(calls[k].result) \/ Idempotent(calls[k].result))
             => k \notin DOMAIN ops /\ Task(k) \notin DOMAIN runs
        /\ k \in DOMAIN ops <=> calls[k].result = "started"
        /\ Task(k) \in DOMAIN runs <=> calls[k].result = "started"
        /\ k \in DOMAIN ops => Range(calls[k].features) \subseteq AvailableFeatures

\* one call returned an operation id, the other was answered Conflict, and
\* the registry holds the one record
C22_Witness ==
    \E k, j \in Began :
        /\ calls[k].result = "started"
        /\ calls[j].result = "conflict"
        /\ DOMAIN ops = {k}

Exited(r) == r.pc \in {"done", "panicked"}

\* C21: under fair scheduling every record inserted as InProgress eventually
\* becomes Completed or Failed, and a task that has ended, in whatever way
\* its ingestion stopped, has recorded the outcome
C21_OutcomeRecorded ==
    /\ [](\A k \in Tasks : Exited(runs[Task(k)]) => Terminal(ops[k].status))
    /\ \A k \in CallIds :
         (k \in DOMAIN ops) ~> (k \in DOMAIN ops /\ Terminal(ops[k].status))

\* C28: an embed call made after an operation for the same target and
\* features has ended Failed, and not rejected by the validation of its
\* arguments, starts a new ingestion and returns an operation id
C28_RetryStartsIngestion ==
    \A k \in Began : \A j \in calls[k].after_failed :
        (/\ calls[k].pc = "returned"
         /\ calls[k].crate_name = ops[j].crate_name
         /\ calls[k].version = ops[j].version
         /\ calls[k].features = calls[j].features
         /\ calls[k].result \notin {"version_resolution_failed",
                                    "features_fetch_failed", "invalid_features"})
        => calls[k].result = "started"

PointsBy(c, t) == IF store[c] = Absent THEN {} ELSE {p \in store[c].points : p.by = t}

\* C23: when two ingestions of one collection have both finished, no point
\* the ingestion with the earlier reset upserted remains in the collection:
\* its content points and its metadata are those of the ingestion whose
\* reset happened later
C23_LaterResetWins ==
    \A a, b \in Ingestions :
        (/\ Returned(runs[a]) /\ Returned(runs[b])
         /\ collection_name(runs[a]) = collection_name(runs[b])
         /\ 0 < runs[a].reset_no
         /\ runs[a].reset_no < runs[b].reset_no)
        => PointsBy(collection_name(runs[a]), a) = {}

\* the places in `stored` that hold chunk c
StoredAt(job, c) ==
    {<<k, i>> \in (DOMAIN job.stored) \X (1..BATCH_SIZE) :
        i \in DOMAIN job.stored[k].pairs /\ job.stored[k].pairs[i].content = c}

\* C24: the batches of embed_chunks hold every chunk exactly once, at most
\* BATCH_SIZE in each; never more than CONCURRENT_BATCHES batches are in
\* flight; and when embed_chunks has returned Ok each chunk has been stored
\* exactly once, with the vector at its own position in the response to its
\* own batch, in whatever order the batches were answered
C24_EachChunkStoredOnce ==
    LET job == runs[EmbedJob] IN
    /\ job.pc # "start" =>
         /\ Flatten(job.batches) = job.chunks
         /\ \A b \in DOMAIN job.batches : Len(job.batches[b]) \in 1..BATCH_SIZE
    /\ Cardinality(job.in_flight) <= CONCURRENT_BATCHES
    /\ job.pc \in {"store", "ret"} => job.next > Len(job.batches)
    /\ (job.pc = "ret" /\ job.result = Ok) =>
         /\ \A c \in Range(job.chunks) : Cardinality(StoredAt(job, c)) = 1
         /\ \A k \in DOMAIN job.stored : \A i \in DOMAIN job.stored[k].pairs :
              /\ job.stored[k].pairs[i].content = job.batches[job.stored[k].batch][i]
              /\ job.stored[k].pairs[i].embedding = Embedding(i)

WalkFailed(r) == r.pc = "ret" /\ r.result = "Failed to process GitHub repository"

Contained(outer, inner) == Lex_le(outer.start, inner.start) /\ Lex_le(inner.end, outer.end)

InsideImpl(doc_items, item) ==
    \E i \in DOMAIN doc_items :
        /\ doc_items[i].type = "Impl"
        /\ doc_items[i].filename = item.filename
        /\ Contained(doc_items[i].span, item.span)

Filtered(job) == job.pc = "ret"

\* C27 as claimed: after the filtering no item that remains, other than the
\* impl items themselves, has its span contained in the span of an impl
\* item of the same file; the impl items and the items not so contained
\* all remain, in their order
C27_NothingInsideImplRemains ==
    LET job == runs[FilterJob] IN
    Filtered(job) =>
        job.filtered_items =
            SelectSeq(job.doc_items, LAMBDA item :
                item.type = "Impl" \/ ~InsideImpl(job.doc_items, item))

\* C27 as amended: after the filtering no function that remains has its
\* span contained in the span of an impl item of the same file (identical
\* spans count as contained); every item of another type, every impl item
\* and every function not so contained remains, in the order of the input
C27_NoFunctionInsideImplRemains ==
    LET job == runs[FilterJob] IN
    Filtered(job) =>
        job.filtered_items =
            SelectSeq(job.doc_items, LAMBDA item :
                item.type # "Function" \/ ~InsideImpl(job.doc_items, item))

\* a function with the span of an impl item of its file was removed, one
\* with that span in another file was kept
C27_Witness ==
    LET job == runs[FilterJob] IN
    /\ Filtered(job)
    /\ Len(job.doc_items) = 3
    /\ Len(job.filtered_items) = 2
    /\ job.doc_items[1].type = "Impl"
    /\ job.doc_items[2].type = "Function"
    /\ job.doc_items[3].type = "Function"
    /\ job.doc_items[2].span = job.doc_items[1].span
    /\ job.doc_items[3].span = job.doc_items[1].span
    /\ job.doc_items[2].filename = job.doc_items[1].filename
    /\ job.doc_items[3].filename # job.doc_items[1].filename
    /\ job.filtered_items[2] = job.doc_items[3]

====
